---- MODULE Spec2Model ----
(***************************************************************************)
(* Model of UILazyInView (src/src/components/mergeRefs.ts, lines 21-87)    *)
(* and of createLoadMap (src/unnamed/part_000).                            *)
(*                                                                         *)
(* One slot instance.  The only code that runs after construction is the   *)
(* onChange handler handed to <InView triggerOnce> and the continuation of *)
(* the promise returned by importer().  The parent may re-render the       *)
(* instance with another loadOnCondition value; that runs no code of the   *)
(* component besides the render itself.                                    *)
(*                                                                         *)
(* Spec is the slot instance.  ResolverSpec and MergeSpec run the pure     *)
(* functions createLoadMap and mergeRefs on arbitrary inputs; PairSpec runs *)
(* two instances side by side on the same events.                          *)
(*                                                                         *)
(* JavaScript values are strings: a flag is "true", "false" or             *)
(* "undefined" (omitted prop); Comp is "null" (initial useState value),    *)
(* "undefined" (mod[exportName] of a missing key) or a component.          *)
(***************************************************************************)
EXTENDS Integers, FiniteSets, Sequences, TLC

\* Bounds on the handles given to mergeRefs and on the updates of the merged
\* handle.
MaxRefs == 3
MaxUpdates == 2

\* Bound on the not-in-view notifications the observer delivers before the
\* element enters the view.
MaxNotInView == 2

\* LazyLoadState
LOADED_ON_MOUNT == "LOADED_ON_MOUNT"
DEFAULT == "DEFAULT"
LAZY_ON_CONDITION == "LAZY_ON_CONDITION"
LazyLoadState == {LOADED_ON_MOUNT, DEFAULT, LAZY_ON_CONDITION}

\* An optional boolean prop.
Flag == {"true", "false", "undefined"}

\* Export names and components of the modules an importer can resolve with.
Keys == {"default", "Named"}
Components == {"CompX", "CompY"}
Modules == UNION {[S -> Components] : S \in SUBSET Keys}
EmptyMod == [k \in {} |-> "CompX"]

VARIABLES
  loadStateProp,    \* prop loadState as given by the parent, or "undefined"
  loadState,        \* loadState after its default was applied
  loadOnMount,      \* prop loadOnMount
  loadOnCondition,  \* prop loadOnCondition (the parent may change it)
  hasOnInView,      \* whether prop onInView is given
  exportName,       \* prop exportName
  mounted,          \* the instance has been created (first render done)
  destroyed,        \* the instance has been unmounted
  Comp,             \* useState value
  observing,        \* InView still observes (triggerOnce not yet consumed)
  notInViewCount,   \* onChange(false) calls so far
  inFlight,         \* promises of importer() not yet settled
  calls,            \* importer() invocations so far
  onInViewCalls,    \* onInView() invocations so far
  condEverTrue,     \* loadOnCondition has been true at some render
  rejected,         \* some importer() promise has rejected
  missingExport,    \* some resolution lacked the key exportName
  lastMod,          \* module of the latest resolution
  lastStep          \* kind of the latest step

\* createLoadMap called on its own, on arbitrary inputs
VARIABLES
  rIn,              \* the argument of the latest call
  rPrev,            \* the argument of the call before
  rOut,             \* the map the latest call returned
  rCalled           \* createLoadMap has been called

\* mergeRefs called on its own, on arbitrary handles
VARIABLES
  mRefs,            \* the handles given to mergeRefs, by kind
  mState,           \* per handle: calls and last argument of a callback,
                    \* .current of a mutable holder
  mInstance,        \* the value of the latest update
  mCount            \* updates of the merged handle so far

\* two slot instances A and B given the same events
VARIABLES
  pLoadState,       \* loadState of both
  pExportName,      \* exportName of both
  pObserving,       \* their <InView> still observes
  pNotIn,           \* onChange(false) calls so far
  pA,               \* instance A: its flags, Comp, calls and promises
  pB                \* instance B

slotVars == <<loadStateProp, loadState, loadOnMount, loadOnCondition,
              hasOnInView, exportName, mounted, destroyed, Comp, observing,
              notInViewCount, inFlight, calls, onInViewCalls, condEverTrue,
              rejected, missingExport, lastMod, lastStep>>

resolverVars == <<rIn, rPrev, rOut, rCalled>>

\* the variables the slot instance does not touch
mergeVars == <<mRefs, mState, mInstance, mCount>>

pairVars == <<pLoadState, pExportName, pObserving, pNotIn, pA, pB>>

others == <<resolverVars, mergeVars, pairVars>>

vars == <<slotVars, others>>

props == <<loadStateProp, loadState, loadOnMount, hasOnInView, exportName>>

\* !!x
Truthy(x) == x = "true"

\* a boolean as a JavaScript value
Bool(b) == IF b THEN "true" ELSE "false"

\* !Comp : the slot holds no component
Empty(comp) == comp \in {"null", "undefined"}

Loaded(comp) == ~Empty(comp)

createLoadMapSwapped(pLoadOnMount, pLoadByDefault, pLoadOnCondition) ==
  [s \in LazyLoadState |->
     CASE s = LOADED_ON_MOUNT -> Truthy(pLoadOnMount)
       [] s = DEFAULT -> Truthy(pLoadOnCondition)
       [] s = LAZY_ON_CONDITION -> Truthy(pLoadByDefault)]

createLoadMapPriority(pLoadOnMount, pLoadByDefault, pLoadOnCondition) ==
  [s \in LazyLoadState |->
     CASE s = LOADED_ON_MOUNT -> Truthy(pLoadOnMount)
       [] s = DEFAULT -> Truthy(pLoadOnMount) \/ Truthy(pLoadByDefault)
       [] s = LAZY_ON_CONDITION -> Truthy(pLoadOnCondition)]

createLoadMap(pLoadOnMount, pLoadByDefault, pLoadOnCondition) ==
  [s \in LazyLoadState |->
     CASE s = LOADED_ON_MOUNT -> Truthy(pLoadOnMount)
       [] s = DEFAULT -> Truthy(pLoadByDefault)
       [] s = LAZY_ON_CONDITION -> Truthy(pLoadOnCondition)]

LoadByDefaultNoView(inView, comp) == Bool(Empty(comp))

\* loadByDefault: inView && !Comp
LoadByDefault(inView, comp) == Bool(inView /\ Empty(comp))

ShouldNotifyAlways(inView, registered) == registered

\* inView && onInView
ShouldNotify(inView, registered) == inView /\ registered

LookupDefault(mod, key) ==
  IF "default" \in DOMAIN mod THEN mod["default"] ELSE "undefined"

\* mod[exportName]
Lookup(mod, key) == IF key \in DOMAIN mod THEN mod[key] ELSE "undefined"

\* const shouldLoad = loadMap[loadState], of an instance with these props
\* and this state
ShouldLoadOf(pLoadStateOf, pLoadOnMount, pLoadOnCondition, comp, inView) ==
  createLoadMap(pLoadOnMount, LoadByDefault(inView, comp),
                pLoadOnCondition)[pLoadStateOf]

\* const shouldLoad = loadMap[loadState]
ShouldLoad(inView) ==
  ShouldLoadOf(loadState, loadOnMount, loadOnCondition, Comp, inView)

\* a created instance, as far as retrievals are concerned
FreshInstances ==
  [loadOnMount : Flag, loadOnCondition : Flag, Comp : {"null"},
   calls : {0}, inFlight : {0}]

NoInstance ==
  [loadOnMount |-> "undefined", loadOnCondition |-> "undefined",
   Comp |-> "null", calls |-> 0, inFlight |-> 0]

PairIdle ==
  /\ pLoadState = DEFAULT
  /\ pExportName = "default"
  /\ pObserving = FALSE
  /\ pNotIn = 0
  /\ pA = NoInstance
  /\ pB = NoInstance

\* ILazyInviewLoadMap: each field true, false or omitted
LoadMapInputs == [loadOnMount : Flag, loadByDefault : Flag, loadOnCondition : Flag]

NoInputs ==
  [loadOnMount |-> "undefined", loadByDefault |-> "undefined",
   loadOnCondition |-> "undefined"]

ResolverIdle ==
  /\ rIn = NoInputs
  /\ rPrev = NoInputs
  /\ rOut = [s \in LazyLoadState |-> FALSE]
  /\ rCalled = FALSE

\* OptionalRef: undefined, null, a callback or a mutable holder
RefKinds == {"undefined", "null", "function", "object"}

\* instance: any | null
Instances == {"null", "div"}

\* a handle nothing was given to yet
FreshHandle == [calls |-> 0, arg |-> "unset", current |-> "unset"]

MergeIdle ==
  /\ mRefs = << >>
  /\ mState = << >>
  /\ mInstance = "unset"
  /\ mCount = 0

\* loadState = LazyLoadState.DEFAULT : the default of the destructured prop
DefaultedLoadState(given) == IF given = "undefined" THEN DEFAULT ELSE given

Init ==
  /\ loadStateProp \in LazyLoadState \cup {"undefined"}
  /\ loadState = DefaultedLoadState(loadStateProp)
  /\ loadOnMount \in Flag
  /\ loadOnCondition \in Flag
  /\ hasOnInView \in BOOLEAN
  /\ exportName \in Keys
  /\ mounted = FALSE
  /\ destroyed = FALSE
  /\ missingExport = FALSE
  /\ Comp = "null"
  /\ observing = FALSE
  /\ notInViewCount = 0
  /\ inFlight = 0
  /\ calls = 0
  /\ onInViewCalls = 0
  /\ condEverTrue = Truthy(loadOnCondition)
  /\ rejected = FALSE
  /\ lastMod = EmptyMod
  /\ lastStep = "init"
  /\ ResolverIdle
  /\ MergeIdle
  /\ PairIdle

MountAndLoad ==
  /\ ~mounted
  /\ mounted' = TRUE
  /\ Comp' = "null"
  /\ observing' = TRUE
  /\ lastStep' = "mount"
  /\ calls' = IF Truthy(loadOnMount) THEN calls + 1 ELSE calls
  /\ inFlight' = IF Truthy(loadOnMount) THEN inFlight + 1 ELSE inFlight
  /\ UNCHANGED others
  /\ UNCHANGED <<props, loadOnCondition, destroyed, notInViewCount,
                 onInViewCalls, condEverTrue, rejected, missingExport,
                 lastMod>>

\* Creation of the instance: the first render runs useState(null) and
\* <InView> starts observing the wrapper div.  No other code runs.
Mount ==
  /\ ~mounted
  /\ mounted' = TRUE
  /\ Comp' = "null"
  /\ observing' = TRUE
  /\ lastStep' = "mount"
  /\ UNCHANGED others
  /\ UNCHANGED <<props, loadOnCondition, destroyed, notInViewCount, inFlight,
                 calls, onInViewCalls, condEverTrue, rejected, missingExport,
                 lastMod>>

\* The body of the onChange handler.
OnChange(inView) ==
  /\ calls' = IF ShouldLoad(inView) THEN calls + 1 ELSE calls
  /\ inFlight' = IF ShouldLoad(inView) THEN inFlight + 1 ELSE inFlight
  /\ onInViewCalls' = IF ShouldNotify(inView, hasOnInView)
                        THEN onInViewCalls + 1 ELSE onInViewCalls
  /\ UNCHANGED others
  /\ UNCHANGED <<props, loadOnCondition, mounted, destroyed, Comp,
                 condEverTrue, rejected, missingExport, lastMod>>

\* The observer reports the element as not in view.
NotInView ==
  /\ observing
  /\ ~destroyed
  /\ notInViewCount < MaxNotInView
  /\ notInViewCount' = notInViewCount + 1
  /\ lastStep' = "notInView"
  /\ OnChange(FALSE)
  /\ UNCHANGED observing

\* The observer reports the element as in view; triggerOnce ends the
\* observation.
EnteredView ==
  /\ observing
  /\ ~destroyed
  /\ observing' = FALSE
  /\ lastStep' = "enteredView"
  /\ OnChange(TRUE)
  /\ UNCHANGED notInViewCount

\* The parent renders the instance with another loadOnCondition.
SetCondition ==
  /\ mounted
  /\ ~destroyed
  /\ \E b \in {"true", "false"} :
       /\ b # loadOnCondition
       /\ loadOnCondition' = b
       /\ condEverTrue' = (condEverTrue \/ Truthy(b))
  /\ lastStep' = "setCondition"
  /\ UNCHANGED others
  /\ UNCHANGED <<props, mounted, destroyed, Comp, observing, notInViewCount,
                 inFlight, calls, onInViewCalls, rejected, missingExport,
                 lastMod>>

\* A promise of importer() resolves: setComp(() => mod[exportName]).
Resolve ==
  /\ inFlight > 0
  /\ ~destroyed
  /\ \E mod \in Modules :
       /\ Comp' = Lookup(mod, exportName)
       /\ lastMod' = mod
       /\ missingExport' = (missingExport \/ exportName \notin DOMAIN mod)
  /\ inFlight' = inFlight - 1
  /\ lastStep' = "resolve"
  /\ UNCHANGED others
  /\ UNCHANGED <<props, loadOnCondition, mounted, destroyed, observing,
                 notInViewCount, calls, onInViewCalls, condEverTrue, rejected>>

\* A promise of importer() rejects: .then's callback does not run.
Reject ==
  /\ inFlight > 0
  /\ inFlight' = inFlight - 1
  /\ rejected' = TRUE
  /\ lastStep' = "reject"
  /\ UNCHANGED others
  /\ UNCHANGED <<props, loadOnCondition, mounted, destroyed, Comp, observing,
                 notInViewCount, calls, onInViewCalls, condEverTrue,
                 missingExport, lastMod>>

\* The instance is unmounted: <InView> stops observing, the parent renders
\* it no more, and React discards its state hook.  Promises of importer()
\* stay pending.
Unmount ==
  /\ mounted
  /\ ~destroyed
  /\ destroyed' = TRUE
  /\ lastStep' = "unmount"
  /\ UNCHANGED others
  /\ UNCHANGED <<props, loadOnCondition, mounted, Comp, observing,
                 notInViewCount, inFlight, calls, onInViewCalls, condEverTrue,
                 rejected, missingExport, lastMod>>

SetCompOnUnmountedApplied(comp, value) == value

\* setComp called for an unmounted instance: React drops the update, the
\* state of the instance is left as it was.
SetCompOnUnmounted(comp, value) == comp

\* A promise of importer() resolves after the instance was unmounted: the
\* continuation still runs setComp(() => mod[exportName]).
ResolveDestroyed ==
  /\ inFlight > 0
  /\ destroyed
  /\ \E mod \in Modules :
       /\ Comp' = SetCompOnUnmounted(Comp, Lookup(mod, exportName))
       /\ lastMod' = mod
  /\ inFlight' = inFlight - 1
  /\ lastStep' = "resolveDestroyed"
  /\ UNCHANGED others
  /\ UNCHANGED <<props, loadOnCondition, mounted, destroyed, observing,
                 notInViewCount, calls, onInViewCalls, condEverTrue, rejected,
                 missingExport>>

\* {!Comp && placeholder}
ShowsPlaceholder(comp) == Empty(comp)

\* {Comp && <Comp {...componentProps} />}
ShowsComponent(comp) == ~Empty(comp)

Next ==
  \/ Mount
  \/ NotInView
  \/ EnteredView
  \/ SetCondition
  \/ Resolve
  \/ Reject
  \/ Unmount
  \/ ResolveDestroyed

Spec == Init /\ [][Next]_vars

\* No slot instance exists.
SlotIdle ==
  /\ loadStateProp = "undefined"
  /\ loadState = DEFAULT
  /\ loadOnMount = "undefined"
  /\ loadOnCondition = "undefined"
  /\ hasOnInView = FALSE
  /\ exportName = "default"
  /\ mounted = FALSE
  /\ destroyed = FALSE
  /\ missingExport = FALSE
  /\ Comp = "null"
  /\ observing = FALSE
  /\ notInViewCount = 0
  /\ inFlight = 0
  /\ calls = 0
  /\ onInViewCalls = 0
  /\ condEverTrue = FALSE
  /\ rejected = FALSE
  /\ lastMod = EmptyMod
  /\ lastStep = "init"

(***************************************************************************)
(* createLoadMap on its own: a sequence of calls on arbitrary inputs.      *)
(***************************************************************************)
ResolverInit ==
  /\ SlotIdle
  /\ MergeIdle
  /\ PairIdle
  /\ rIn \in LoadMapInputs
  /\ rPrev = rIn
  /\ rOut = [s \in LazyLoadState |-> FALSE]
  /\ rCalled = FALSE

\* One call createLoadMap(in).
ResolverCall ==
  /\ \E in \in LoadMapInputs :
       /\ rIn' = in
       /\ rOut' = createLoadMap(in.loadOnMount, in.loadByDefault,
                                in.loadOnCondition)
  /\ rPrev' = rIn
  /\ rCalled' = TRUE
  /\ UNCHANGED <<slotVars, mergeVars, pairVars>>

ResolverNext == ResolverCall

ResolverSpec == ResolverInit /\ [][ResolverNext]_vars

(***************************************************************************)
(* mergeRefs on its own: a merged handle over arbitrary handles, updated   *)
(* with arbitrary values.                                                  *)
(***************************************************************************)
RECURSIVE ForEachRefBreak(_, _, _, _)
ForEachRefBreak(refs, st, instance, i) ==
  IF i > Len(refs) THEN st
  ELSE IF refs[i] \in {"undefined", "null"} THEN st
  ELSE IF refs[i] = "function"
    THEN ForEachRefBreak(refs,
           [st EXCEPT ![i].calls = @ + 1, ![i].arg = instance], instance, i + 1)
    ELSE ForEachRefBreak(refs,
           [st EXCEPT ![i].current = instance], instance, i + 1)

\* refs.forEach((ref) => { ... }) from the i-th handle on
RECURSIVE ForEachRef(_, _, _, _)
ForEachRef(refs, st, instance, i) ==
  IF i > Len(refs) THEN st
  ELSE IF refs[i] \in {"undefined", "null"}
    THEN ForEachRef(refs, st, instance, i + 1)
  ELSE IF refs[i] = "function"
    THEN ForEachRef(refs,
           [st EXCEPT ![i].calls = @ + 1, ![i].arg = instance], instance, i + 1)
    ELSE ForEachRef(refs,
           [st EXCEPT ![i].current = instance], instance, i + 1)

mergeRefsStopAtNull(refs, st, instance) == ForEachRefBreak(refs, st, instance, 1)

\* mergeRefs(refs)(instance): the handles' states after the update
mergeRefs(refs, st, instance) == ForEachRef(refs, st, instance, 1)

MergeInit ==
  /\ SlotIdle
  /\ ResolverIdle
  /\ PairIdle
  /\ \E n \in 0..MaxRefs :
       /\ mRefs \in [1..n -> RefKinds]
       /\ mState = [i \in 1..n |-> FreshHandle]
  /\ mInstance = "unset"
  /\ mCount = 0

\* The merged handle is updated with a value.
MergeUpdate ==
  /\ mCount < MaxUpdates
  /\ \E instance \in Instances :
       /\ mInstance' = instance
       /\ mState' = mergeRefs(mRefs, mState, instance)
  /\ mCount' = mCount + 1
  /\ UNCHANGED <<slotVars, resolverVars, pairVars, mRefs>>

MergeNext == MergeUpdate

MergeSpec == MergeInit /\ [][MergeNext]_vars

(***************************************************************************)
(* Two instances with the same loadState and exportName, given the same    *)
(* notifications and the same retrieval completions.  The input of their   *)
(* own strategy is the same in both; the other flags are free.             *)
(***************************************************************************)

\* The onChange handler of one instance, as far as retrievals go.
HandleOnChange(inst, inView) ==
  IF ShouldLoadOf(pLoadState, inst.loadOnMount, inst.loadOnCondition,
                  inst.Comp, inView)
    THEN [inst EXCEPT !.calls = @ + 1, !.inFlight = @ + 1]
    ELSE inst

\* importer().then((mod) => setComp(() => mod[exportName])) of one instance
HandleResolve(inst, mod) ==
  IF inst.inFlight > 0
    THEN [inst EXCEPT !.Comp = Lookup(mod, pExportName), !.inFlight = @ - 1]
    ELSE inst

\* a promise of one instance rejects
HandleReject(inst) ==
  IF inst.inFlight > 0 THEN [inst EXCEPT !.inFlight = @ - 1] ELSE inst

PairInit ==
  /\ SlotIdle
  /\ ResolverIdle
  /\ MergeIdle
  /\ pLoadState \in LazyLoadState
  /\ pExportName \in Keys
  /\ pObserving = TRUE
  /\ pNotIn = 0
  /\ pA \in FreshInstances
  /\ pB \in FreshInstances
  /\ pLoadState = LOADED_ON_MOUNT => pA.loadOnMount = pB.loadOnMount
  /\ pLoadState = LAZY_ON_CONDITION => pA.loadOnCondition = pB.loadOnCondition

PairNotInView ==
  /\ pObserving
  /\ pNotIn < MaxNotInView
  /\ pNotIn' = pNotIn + 1
  /\ pA' = HandleOnChange(pA, FALSE)
  /\ pB' = HandleOnChange(pB, FALSE)
  /\ UNCHANGED <<slotVars, resolverVars, mergeVars, pLoadState, pExportName,
                 pObserving>>

PairEnteredView ==
  /\ pObserving
  /\ pObserving' = FALSE
  /\ pA' = HandleOnChange(pA, TRUE)
  /\ pB' = HandleOnChange(pB, TRUE)
  /\ UNCHANGED <<slotVars, resolverVars, mergeVars, pLoadState, pExportName,
                 pNotIn>>

\* The parents render with another loadOnCondition: both instances when it
\* is the input of their strategy, else either.
PairSetCondition ==
  /\ \E who \in {"A", "B", "both"}, b \in {"true", "false"} :
       /\ pLoadState = LAZY_ON_CONDITION => who = "both"
       /\ pA' = IF who \in {"A", "both"}
                  THEN [pA EXCEPT !.loadOnCondition = b] ELSE pA
       /\ pB' = IF who \in {"B", "both"}
                  THEN [pB EXCEPT !.loadOnCondition = b] ELSE pB
  /\ UNCHANGED <<slotVars, resolverVars, mergeVars, pLoadState, pExportName,
                 pObserving, pNotIn>>

PairResolve ==
  /\ pA.inFlight > 0 \/ pB.inFlight > 0
  /\ \E mod \in Modules :
       /\ pA' = HandleResolve(pA, mod)
       /\ pB' = HandleResolve(pB, mod)
  /\ UNCHANGED <<slotVars, resolverVars, mergeVars, pLoadState, pExportName,
                 pObserving, pNotIn>>

PairReject ==
  /\ pA.inFlight > 0 \/ pB.inFlight > 0
  /\ pA' = HandleReject(pA)
  /\ pB' = HandleReject(pB)
  /\ UNCHANGED <<slotVars, resolverVars, mergeVars, pLoadState, pExportName,
                 pObserving, pNotIn>>

PairNext ==
  \/ PairNotInView
  \/ PairEnteredView
  \/ PairSetCondition
  \/ PairResolve
  \/ PairReject

PairSpec == PairInit /\ [][PairNext]_vars

TypeOK ==
  /\ loadState \in LazyLoadState
  /\ loadOnMount \in Flag
  /\ loadOnCondition \in Flag
  /\ hasOnInView \in BOOLEAN
  /\ exportName \in Keys
  /\ mounted \in BOOLEAN
  /\ destroyed \in BOOLEAN
  /\ missingExport \in BOOLEAN
  /\ loadStateProp \in LazyLoadState \cup {"undefined"}
  /\ Comp \in {"null", "undefined"} \cup Components
  /\ observing \in BOOLEAN
  /\ notInViewCount \in 0..(MaxNotInView + 1)
  /\ inFlight \in 0..calls
  /\ calls \in Nat
  /\ onInViewCalls \in Nat
  /\ condEverTrue \in BOOLEAN
  /\ rejected \in BOOLEAN
  /\ lastMod \in Modules

(***************************************************************************)
(* Claims                                                                  *)
(***************************************************************************)

\* C1: for one instance and any strategy, over any sequence of
\* notifications, condition changes and retrieval completions, the importer
\* is invoked at most once.
C1_AtMostOneRetrieval == calls <= 1

\* C2: when the strategy is ForcedOnMount (loadOnMount true), a retrieval is
\* initiated at instance creation, before and independently of any
\* visibility notification: once the instance is created, and as long as no
\* notification has been delivered, exactly one retrieval has been initiated.
C2_RetrievalAtCreation ==
  (/\ loadState = LOADED_ON_MOUNT
   /\ Truthy(loadOnMount)
   /\ mounted
   /\ observing
   /\ notInViewCount = 0)
  => calls = 1

\* C3: when the strategy is ConditionGated and the slot is Empty, a change
\* of the condition from false to true initiates a retrieval at that change,
\* also after the entered-view notification was delivered.
C3_ConditionFlipRetrieves ==
  [][(/\ loadState = LAZY_ON_CONDITION
      /\ Empty(Comp)
      /\ ~Truthy(loadOnCondition)
      /\ Truthy(loadOnCondition'))
     => calls' = calls + 1]_vars

\* C4: when the strategy is ConditionGated, no retrieval is initiated as
\* long as the condition has never been true, whatever notifications were
\* delivered.
C4_NoRetrievalBeforeCondition ==
  (loadState = LAZY_ON_CONDITION /\ ~condEverTrue) => calls = 0

\* C4 witness: both kinds of notification were delivered to a
\* ConditionGated instance whose condition was never true, and no retrieval
\* was initiated.
C4_Witness ==
  /\ loadState = LAZY_ON_CONDITION
  /\ ~condEverTrue
  /\ notInViewCount > 0
  /\ ~observing
  /\ calls = 0

\* C5: under the Default strategy with loadOnMount and loadOnCondition not
\* true, a step initiates a retrieval if and only if it handles an
\* entered-view notification while the slot is Empty; a not-in-view
\* notification never does.
C5_DefaultRetrievesOnEnter ==
  [][(loadState = DEFAULT /\ ~Truthy(loadOnMount) /\ ~Truthy(loadOnCondition))
     => /\ calls' \in {calls, calls + 1}
        /\ (calls' = calls + 1) <=> (lastStep' = "enteredView" /\ Empty(Comp))
        /\ lastStep' = "notInView" => calls' = calls]_vars

\* C5 witness: a Default instance got a not-in-view and then the
\* entered-view notification, and one retrieval was initiated.
C5_Witness ==
  /\ loadState = DEFAULT
  /\ ~Truthy(loadOnMount)
  /\ ~Truthy(loadOnCondition)
  /\ notInViewCount > 0
  /\ lastStep = "enteredView"
  /\ calls = 1

\* C6: every retrieval is initiated in a state where the slot is Empty.
C6_RetrievalOnlyWhenEmpty ==
  [][calls' # calls => Empty(Comp)]_vars

\* C7: once the slot is Loaded its component never changes: it neither
\* returns to Empty nor is overwritten.
C7_LoadedIsStable ==
  [][Loaded(Comp) => Comp' = Comp]_vars

\* C8: a registered onInView is invoked exactly once, at the entered-view
\* notification, under every strategy and whether or not a retrieval is
\* initiated, and never at a not-in-view notification: its invocation count
\* is 1 once the entered-view notification was delivered and 0 before
\* (observing is false before creation and after that notification).
C8_OnInViewOnceOnEnter ==
  hasOnInView => onInViewCalls = (IF mounted /\ ~observing THEN 1 ELSE 0)

\* C8 witness: after a not-in-view notification, the entered-view
\* notification invoked onInView and initiated no retrieval.
C8_Witness ==
  /\ hasOnInView
  /\ notInViewCount > 0
  /\ lastStep = "enteredView"
  /\ onInViewCalls = 1
  /\ calls = 0

\* C9: when a retrieval resolves with a module: if exportName is one of its
\* keys the slot becomes Loaded with that entry; otherwise the slot is Empty.
C9_ExportLookup ==
  [][lastStep' = "resolve"
     => /\ exportName \in DOMAIN lastMod'
             => (Loaded(Comp') /\ Comp' = lastMod'[exportName])
        /\ exportName \notin DOMAIN lastMod' => Empty(Comp')]_vars

\* C9 witness: a retrieval resolved with a module whose "default" and
\* "Named" exports differ, and the slot holds the "Named" one.
C9_Witness ==
  /\ lastStep = "resolve"
  /\ exportName = "Named"
  /\ DOMAIN lastMod = Keys
  /\ lastMod["default"] # lastMod["Named"]
  /\ Comp = lastMod["Named"]

\* C10: once a retrieval has rejected, the slot stays Empty and no further
\* retrieval is initiated.
C10_NoRetryAfterReject ==
  [][rejected => (calls' = calls /\ Empty(Comp'))]_vars

\* The strategy the flags stand for when loadState is omitted.
C11_DerivedStrategy ==
  IF Truthy(loadOnMount) THEN LOADED_ON_MOUNT
  ELSE IF loadOnCondition # "undefined" THEN LAZY_ON_CONDITION
  ELSE DEFAULT

\* C11: when the loadState prop is omitted, the effective strategy of the
\* created instance is derived from the flags: loadOnMount true gives
\* ForcedOnMount, otherwise a configured loadOnCondition gives
\* ConditionGated, otherwise Default.
C11_StrategyFromFlags ==
  (mounted /\ loadStateProp = "undefined") => loadState = C11_DerivedStrategy

\* C12: under the Default strategy, the entered-view notification leaves
\* exactly one retrieval initiated; the slot stays Empty until a retrieval
\* resolves, and a resolution with a module that has the key exportName
\* makes it Loaded with that export, with one retrieval initiated in all.
C12_DefaultLoadsOnResolution ==
  [][(loadState = DEFAULT /\ ~destroyed)
     => /\ lastStep' = "enteredView" => calls' = 1
        /\ (lastStep' = "resolve" /\ exportName \in DOMAIN lastMod')
             => (calls' = 1 /\ Comp' = lastMod'[exportName] /\ Loaded(Comp'))
        /\ (Empty(Comp) /\ Loaded(Comp')) => lastStep' = "resolve"]_vars

\* C12 witness: a Default instance created out of view got the entered-view
\* notification, its one retrieval resolved and the slot is Loaded.
C12_Witness ==
  /\ loadState = DEFAULT
  /\ notInViewCount > 0
  /\ ~observing
  /\ lastStep = "resolve"
  /\ calls = 1
  /\ exportName \in DOMAIN lastMod
  /\ Comp = lastMod[exportName]

\* C14: in every reachable state at most one retrieval is in flight.
C14_AtMostOneInFlight == inFlight <= 1

C17_PlaceholderIffEmpty ==
  /\ ShowsPlaceholder(Comp) <=> Empty(Comp)
  /\ ShowsComponent(Comp) <=> Loaded(Comp)
  /\ ~(ShowsPlaceholder(Comp) /\ ShowsComponent(Comp))
  /\ (rejected \/ missingExport) => ShowsPlaceholder(Comp)

\* C18: under the Default strategy the importer is invoked at most once,
\* whatever the values of loadOnMount and loadOnCondition.
C18_DefaultAtMostOnce ==
  loadState = DEFAULT => calls <= 1

\* C18 witness: a Default instance with both flags true got two not-in-view
\* notifications and the entered-view one, and one retrieval was initiated.
C18_Witness ==
  /\ loadState = DEFAULT
  /\ Truthy(loadOnMount)
  /\ Truthy(loadOnCondition)
  /\ notInViewCount >= 2
  /\ mounted
  /\ ~observing
  /\ calls = 1

\* the visibility notifications delivered so far
C19_Notifications ==
  notInViewCount + (IF mounted /\ ~observing THEN 1 ELSE 0)

C13_LoadMapOfInputs ==
  rCalled =>
    /\ DOMAIN rOut = {LOADED_ON_MOUNT, DEFAULT, LAZY_ON_CONDITION}
    /\ rOut[LOADED_ON_MOUNT] = (rIn.loadOnMount = "true")
    /\ rOut[DEFAULT] = (rIn.loadByDefault = "true")
    /\ rOut[LAZY_ON_CONDITION] = (rIn.loadOnCondition = "true")
    /\ ("true" \notin {rIn.loadOnMount, rIn.loadByDefault, rIn.loadOnCondition})
         => \A s \in DOMAIN rOut : rOut[s] = FALSE

\* C13 witness: a call with loadByDefault true alone, the others false and
\* omitted, after a call with all three inputs true.
C13_Witness ==
  /\ rCalled
  /\ rPrev = [loadOnMount |-> "true", loadByDefault |-> "true",
              loadOnCondition |-> "true"]
  /\ rIn = [loadOnMount |-> "false", loadByDefault |-> "true",
            loadOnCondition |-> "undefined"]
  /\ rOut[DEFAULT]
  /\ ~rOut[LOADED_ON_MOUNT]

\* C20: each update of the merged handle gives its value to every non-null
\* handle, a callback being called once with it and a mutable holder getting
\* it as .current; null and undefined handles are skipped; and no handle
\* gets anything else.
C20_MergeRefsFanOut ==
  [][mCount' = mCount + 1 =>
       \A i \in DOMAIN mRefs :
         CASE mRefs[i] = "function" ->
                mState'[i] = [calls |-> mState[i].calls + 1,
                              arg |-> mInstance',
                              current |-> mState[i].current]
           [] mRefs[i] = "object" ->
                mState'[i] = [calls |-> mState[i].calls,
                              arg |-> mState[i].arg,
                              current |-> mInstance']
           [] OTHER -> mState'[i] = FreshHandle]_vars

\* C20 witness: a null handle between a mutable holder and a callback; after
\* two updates the holder and the callback hold the latest value and the
\* null handle got nothing.
C20_Witness ==
  /\ mRefs = <<"object", "null", "function">>
  /\ mCount = 2
  /\ mInstance = "null"
  /\ mState[1].current = "null"
  /\ mState[2] = FreshHandle
  /\ mState[3] = [calls |-> 2, arg |-> "null", current |-> "unset"]

\* C15: two instances with the same strategy, the same value of that
\* strategy's own input and the same events initiate retrievals at the same
\* steps, whatever their other two inputs are.
C15_OnlyOwnEntryConsulted ==
  [][(pA.calls' - pA.calls) = (pB.calls' - pB.calls)]_vars

\* C15 witness: two Default instances that differ in both flags each
\* initiated their one retrieval, after a not-in-view notification that
\* initiated none.
C15_Witness ==
  /\ pLoadState = DEFAULT
  /\ pA.loadOnMount = "true"
  /\ pB.loadOnMount = "false"
  /\ pA.loadOnCondition = "true"
  /\ pB.loadOnCondition = "undefined"
  /\ pNotIn > 0
  /\ ~pObserving
  /\ pA.calls = 1
  /\ pB.calls = 1

====
